---- MODULE Spec2Model ----
(***************************************************************************)
(* Model of Markov_vs_MonteCarlo.ipynb: the policy-iteration solver         *)
(* (policy_evaluation, one_step_lookahead, policy_iteration) and the Monte  *)
(* Carlo estimator (init_env, one_iteration, tiny_epsilon_choice,           *)
(* train_and_test), both run against a gym-style environment that exposes   *)
(* its transition table P[state][action].                                   *)
(*                                                                          *)
(* Numbers.  The solver's float64 values are fixed-point integers in units  *)
(* of 1/Scale, rounded down once per assignment; the Monte Carlo averages   *)
(* are exact rationals num/den kept in lowest terms.  A division by zero    *)
(* (numpy yields inf or nan and goes on) shows as a rational with den = 0.  *)
(* Probabilities are numerators over a denominator, rewards are integers.   *)
(***************************************************************************)
EXTENDS Integers, Sequences, FiniteSets, TLC

VARIABLES
    envId,        \* which transition table the environment exposes
    call,         \* the entry point the caller invoked
    pc,           \* position of the solver
    discount,     \* discount_factor as <<numerator, denominator>>
    policy,       \* policy[state][action], numerators over nA
    V,            \* value function (fixed point), or None
    pe_i,         \* sweeps started by the running policy_evaluation
    pe_max,       \* its max_iterations
    pi_i,         \* outer rounds started by policy_iteration
    pi_max,       \* its max_iterations
    result,       \* what the call returned
    error,        \* the exception that ended the call, or "none"
    sa_valmat,    \* sa_valmat[state][action]: visit count and average
    mc_pc,        \* position of one_iteration
    mc_policy,    \* its policy argument
    epsilon,      \* its epsilon argument, in units of 1/EpsRes
    sa_occurence_matrix, \* occurrences of each pair in this episode
    done,         \* locals of one_iteration
    state,
    rew,
    reward,
    step_count,
    action,
    branch,       \* the branch tiny_epsilon_choice took last
    env_s,        \* the environment's own state
    env_resets,   \* calls of env.reset() so far
    env_steps,    \* calls of env.step() so far
    episodes,     \* calls of one_iteration so far
    taken,        \* history: taken[s][a] = times env.step(a) was called in s
    steps_returned, \* history: sum of the step_count values returned so far
    tt_pc,        \* position of train_and_test
    tt_policy,    \* its arguments
    train_epochs,
    test_epochs,
    tt_i,         \* index of the running for loop
    train_wins,   \* its counters
    test_wins

\* Python's None where a value function is expected: no state has a value
None == <<>>

----------------------------------------------------------------------------
(* Bounds of the model *)

\* resolution of the fixed-point stand-in for float64: one unit is 1/Scale
Scale == 1000
\* largest max_iterations a caller passes explicitly
MaxIterations == 10
\* stand-in for the default max_iterations = 1e9 of policy_evaluation
EvalDefaultIterations == 40
\* resolution of epsilon and of the uniform draw random_shot
EpsRes == 20
\* longest episode followed, in steps
MaxSteps == 3
\* most calls of one_iteration a caller makes in a row
MaxEpisodes == 2
\* the environments the episodes are run in (indices into Envs)
EpisodeEnvs == {1, 2, 3, 4}
\* the environments train_and_test is run in
TrainEnvs == {2}
\* largest train_epochs and test_epochs a caller passes
MaxTrain == 2
MaxTest == 2

----------------------------------------------------------------------------
(* The environment model: P[state][action] is a list of                     *)
(* (probability, next_state, reward, terminated) tuples, as env.P[10] shows *)

\* probabilities are numerators over the table's denominator pd
Out(pn, ns, r, t) == [pn |-> pn, ns |-> ns, r |-> r, t |-> t]

\* an absorbing terminal state: every action stays there with reward 0
Absorbing(s, nA, pd) == [a \in 0..(nA - 1) |-> <<Out(pd, s, 0, TRUE)>>]

\* state 0: action 0 stays in 0 (reward 0), action 1 reaches the goal 1
TieLoopEnv ==
    [nS |-> 2, nA |-> 2, pd |-> 1,
     P |-> [s \in 0..1 |->
              IF s = 0
              THEN [a \in 0..1 |->
                      IF a = 0 THEN <<Out(1, 0, 0, FALSE)>>
                               ELSE <<Out(1, 1, 1, TRUE)>>]
              ELSE Absorbing(1, 2, 1)]]

\* state 0: action 0 reaches the goal 1 (reward 1), action 1 the hole 2
GoalFirstEnv ==
    [nS |-> 3, nA |-> 2, pd |-> 1,
     P |-> [s \in 0..2 |->
              IF s = 0
              THEN [a \in 0..1 |->
                      IF a = 0 THEN <<Out(1, 1, 1, TRUE)>>
                               ELSE <<Out(1, 2, 0, TRUE)>>]
              ELSE Absorbing(s, 2, 1)]]

\* a slippery 2x2 lake  S F / H G : 0 start, 1 frozen, 2 hole, 3 goal;
\* action 0 = right, action 1 = down, each slips half of the time
LakeEnv ==
    [nS |-> 4, nA |-> 2, pd |-> 2,
     P |-> [s \in 0..3 |->
              CASE s = 0 ->
                     [a \in 0..1 |->
                        IF a = 0
                        THEN <<Out(1, 1, 0, FALSE), Out(1, 2, 0, TRUE)>>
                        ELSE <<Out(1, 2, 0, TRUE), Out(1, 0, 0, FALSE)>>]
                [] s = 1 ->
                     [a \in 0..1 |->
                        IF a = 0
                        THEN <<Out(1, 1, 0, FALSE), Out(1, 3, 1, TRUE)>>
                        ELSE <<Out(2, 3, 1, TRUE)>>]
                [] OTHER -> Absorbing(s, 2, 2)]]

\* state 0: action 0 ends the game (reward 0), action 1 loops with reward 1
RewardLoopEnv ==
    [nS |-> 2, nA |-> 2, pd |-> 1,
     P |-> [s \in 0..1 |->
              IF s = 0
              THEN [a \in 0..1 |->
                      IF a = 0 THEN <<Out(1, 1, 0, TRUE)>>
                               ELSE <<Out(1, 0, 1, FALSE)>>]
              ELSE Absorbing(1, 2, 1)]]

\* every action has one outcome and state 5 is the only terminal state, the
\* goal (reward 1).  From 0, action 0 leads through 1 to the goal in two
\* steps and action 1 through 3 and 4 in three; action 1 of state 1 leads to
\* the dead end 2
DetourEnv ==
    [nS |-> 6, nA |-> 2, pd |-> 1,
     P |-> [s \in 0..5 |->
              CASE s = 0 ->
                     [a \in 0..1 |->
                        IF a = 0 THEN <<Out(1, 1, 0, FALSE)>>
                                 ELSE <<Out(1, 3, 0, FALSE)>>]
                [] s = 1 ->
                     [a \in 0..1 |->
                        IF a = 0 THEN <<Out(1, 5, 1, TRUE)>>
                                 ELSE <<Out(1, 2, 0, FALSE)>>]
                [] s = 2 -> [a \in 0..1 |-> <<Out(1, 2, 0, FALSE)>>]
                [] s = 3 -> [a \in 0..1 |-> <<Out(1, 4, 0, FALSE)>>]
                [] s = 4 -> [a \in 0..1 |-> <<Out(1, 5, 1, TRUE)>>]
                [] OTHER -> Absorbing(5, 2, 1)]]

Envs == <<TieLoopEnv, GoalFirstEnv, LakeEnv, RewardLoopEnv, DetourEnv>>

Env == Envs[envId]
States == 0..(Env.nS - 1)
Actions == 0..(Env.nA - 1)

\* discount factors the callers use: the default 1.0, and 1/2
Discounts == {<<1, 1>>, <<1, 2>>}

----------------------------------------------------------------------------
(* Helpers *)

vars == <<envId, call, pc, discount, policy, V, pe_i, pe_max, pi_i, pi_max, result,
          error, sa_valmat, mc_pc, mc_policy, epsilon, sa_occurence_matrix, done,
          state, rew, reward, step_count, action, branch, env_s, env_resets,
          env_steps, episodes, taken, steps_returned, tt_pc, tt_policy,
          train_epochs, test_epochs, tt_i,
          train_wins, test_wins>>

\* what the solver leaves alone: the Monte Carlo estimator's state
estimatorVars == <<sa_valmat, mc_pc, mc_policy, epsilon, sa_occurence_matrix, done,
                   state, rew, reward, step_count, action, branch, env_s,
                   env_resets, env_steps, episodes, taken, steps_returned, tt_pc,
                   tt_policy, train_epochs,
                   test_epochs, tt_i, train_wins, test_wins>>

Abs(x) == IF x < 0 THEN -x ELSE x
Max(a, b) == IF a >= b THEN a ELSE b

RECURSIVE SumSeq(_)
SumSeq(q) == IF q = <<>> THEN 0 ELSE Head(q) + SumSeq(Tail(q))

\* np.argmax of a row given as a function on 0..n-1: first index of the maximum
ArgMax(row) ==
    CHOOSE a \in DOMAIN row :
        /\ \A b \in DOMAIN row : row[b] <= row[a]
        /\ \A b \in DOMAIN row : b < a => row[b] < row[a]

\* np.ones([nS, nA]) / nA : numerators over nA
UniformPolicy == [s \in States |-> [a \in Actions |-> 1]]
\* np.eye(nA)[best_action]
OneHot(best) == [a \in Actions |-> IF a = best THEN Env.nA ELSE 0]
\* np.zeros(nS)
ZeroV == [s \in States |-> 0]

\* the state of a component that has not been called
IdleSolver ==
    /\ call = "none"
    /\ pc = "idle"
    /\ discount = <<1, 1>>
    /\ policy = <<>>
    /\ V = None
    /\ pe_i = 0
    /\ pe_max = 0
    /\ pi_i = 0
    /\ pi_max = 0
    /\ result = "none"

IdleEpisode ==
    /\ mc_pc = "idle"
    /\ mc_policy = "none"
    /\ epsilon = 0
    /\ sa_occurence_matrix = <<>>
    /\ done = FALSE
    /\ state = 0
    /\ rew = 0
    /\ reward = 0
    /\ step_count = 0
    /\ action = 0
    /\ branch = "none"
    /\ env_s = 0
    /\ env_resets = 0
    /\ env_steps = 0
    /\ episodes = 0
    /\ taken = [s \in States |-> [a \in Actions |-> 0]]
    /\ steps_returned = 0

IdleTrain ==
    /\ tt_pc = "idle"
    /\ tt_policy = "none"
    /\ train_epochs = 0
    /\ test_epochs = 0
    /\ tt_i = 0
    /\ train_wins = 0
    /\ test_wins = 0

----------------------------------------------------------------------------
(* policy_evaluation *)

\* reward + discount_factor * V[next_state], weighted by the outcome's
\* probability; numerator over Env.pd * discount[2]
OutcomeTerm(o, Vc) == o.pn * (o.r * Scale * discount[2] + discount[1] * Vc[o.ns])

\* the sum over the outcomes of P[state][action]
ActionSum(s, a, Vc) ==
    SumSeq([k \in 1..Len(Env.P[s][a]) |-> OutcomeTerm(Env.P[s][a][k], Vc)])

\* v of one state: the sum over the actions of the policy row and over their
\* outcomes of action_probability * state_probability * (reward + ...)
StateValue(pol, s, Vc) ==
    SumSeq([k \in 1..Env.nA |-> pol[s][k - 1] * ActionSum(s, k - 1, Vc)])
        \div (Env.nA * Env.pd * discount[2])

\* one sweep of "for state in range(nS)" from state s on; V is updated in
\* place, so later states read the values this sweep already wrote
RECURSIVE SweepFrom(_, _, _, _)
SweepFrom(pol, s, Vc, delta) ==
    IF s >= Env.nS THEN [V |-> Vc, delta |-> delta]
    ELSE LET v == StateValue(pol, s, Vc)
         IN SweepFrom(pol, s + 1, [Vc EXCEPT ![s] = v],
                      Max(delta, Abs(Vc[s] - v)))

Sweep(pol, Vc) == SweepFrom(pol, 0, Vc, 0)

\* theta = 1e-9, below the resolution: delta < theta iff no value moved
Theta == 1

Converged(delta) == delta < Theta

----------------------------------------------------------------------------
(* one_step_lookahead *)

one_step_lookahead(s, Vc) ==
    [a \in Actions |-> ActionSum(s, a, Vc) \div (Env.pd * discount[2])]

----------------------------------------------------------------------------
(* policy_iteration: the improvement pass over all states *)

BestAction(s, Vc) == ArgMax(one_step_lookahead(s, Vc))

\* "if current_action != best_action": the row is rewritten only then
ImprovedRow(pol, s, Vc) ==
    IF ArgMax(pol[s]) # BestAction(s, Vc) THEN OneHot(BestAction(s, Vc))
    ELSE pol[s]

Improve(pol, Vc) == [s \in States |-> ImprovedRow(pol, s, Vc)]

StablePolicy(pol, Vc) == \A s \in States : ArgMax(pol[s]) = BestAction(s, Vc)

----------------------------------------------------------------------------
(* The solver as a state machine.  pc is the position in the running call:  *)
(* "pe_loop" the head of policy_evaluation's for loop, "pi_loop" the head   *)
(* of policy_iteration's, "improve" the improvement pass.                   *)

\* every deterministic policy, and the uniform one
InputPolicies ==
    {UniformPolicy} \cup
    {[s \in States |-> OneHot(f[s])] : f \in [States -> Actions]}

\* the return statement of policy_evaluation hands V to its caller
EvalReturns(Vr) ==
    /\ V' = Vr
    /\ IF call = "policy_evaluation"
       THEN /\ pc' = "returned"
            /\ result' = IF Vr = None THEN "None" ELSE "V"
       ELSE /\ pc' = "improve"
            /\ result' = result

InitSolver ==
    /\ envId \in 1..Len(Envs)
    /\ discount \in Discounts
    /\ call \in {"policy_evaluation", "policy_iteration"}
    /\ error = "none"
    /\ result = "none"
    /\ pe_i = 0
    /\ pi_i = 0
    /\ IF call = "policy_evaluation"
       THEN /\ policy \in InputPolicies
            /\ V = ZeroV
            /\ pe_max \in 0..MaxIterations
            /\ pi_max = 0
            /\ pc = "pe_loop"
       ELSE /\ policy = UniformPolicy
            /\ V = None
            /\ pe_max = EvalDefaultIterations
            /\ pi_max \in 0..MaxIterations
            /\ pc = "pi_loop"
    /\ sa_valmat = <<>>
    /\ IdleEpisode
    /\ IdleTrain

\* one pass of "for i in range(int(max_iterations))" in policy_evaluation
PE_Sweep ==
    /\ pc = "pe_loop"
    /\ pe_i < pe_max
    /\ pe_i' = pe_i + 1
    /\ LET sw == Sweep(policy, V)
       IN IF Converged(sw.delta)
          THEN EvalReturns(sw.V)
          ELSE /\ V' = sw.V
               /\ UNCHANGED <<pc, result>>
    /\ UNCHANGED <<envId, call, discount, policy, pe_max, pi_i, pi_max, error>>
    /\ UNCHANGED estimatorVars

\* the for loop of policy_evaluation ends: the function falls off its end
PE_Exhausted ==
    /\ pc = "pe_loop"
    /\ pe_i >= pe_max
    /\ EvalReturns(None)
    /\ UNCHANGED <<envId, call, discount, policy, pe_i, pe_max, pi_i, pi_max, error>>
    /\ UNCHANGED estimatorVars

\* one pass of the outer loop begins: policy_evaluation is called
PI_Round ==
    /\ pc = "pi_loop"
    /\ pi_i < pi_max
    /\ pi_i' = pi_i + 1
    /\ V' = ZeroV
    /\ pe_i' = 0
    /\ pe_max' = EvalDefaultIterations
    /\ pc' = "pe_loop"
    /\ UNCHANGED <<envId, call, discount, policy, pi_max, result, error>>
    /\ UNCHANGED estimatorVars

\* the outer loop ends: policy_iteration falls off its end
PI_Exhausted ==
    /\ pc = "pi_loop"
    /\ pi_i >= pi_max
    /\ pc' = "returned"
    /\ result' = "None"
    /\ UNCHANGED <<envId, call, discount, policy, V, pe_i, pe_max, pi_i, pi_max, error>>
    /\ UNCHANGED estimatorVars

\* the improvement pass and the test of stable_policy
PI_Improve ==
    /\ pc = "improve"
    /\ V # None
    /\ policy' = Improve(policy, V)
    /\ IF StablePolicy(policy, V)
       THEN /\ pc' = "returned"
            /\ result' = "policy_V"
       ELSE /\ pc' = "pi_loop"
            /\ result' = result
    /\ UNCHANGED <<envId, call, discount, V, pe_i, pe_max, pi_i, pi_max, error>>
    /\ UNCHANGED estimatorVars

\* policy_evaluation returned None: one_step_lookahead subscripts it
PI_LookaheadFails ==
    /\ pc = "improve"
    /\ V = None
    /\ pc' = "failed"
    /\ error' = "TypeError"
    /\ UNCHANGED <<envId, call, discount, policy, V, pe_i, pe_max, pi_i, pi_max, result>>
    /\ UNCHANGED estimatorVars


NextSolver ==
    \/ PE_Sweep
    \/ PE_Exhausted
    \/ PI_Round
    \/ PI_Exhausted
    \/ PI_Improve
    \/ PI_LookaheadFails

SpecSolver == InitSolver /\ [][NextSolver]_vars

----------------------------------------------------------------------------
(* The Monte Carlo estimator.  An average is the exact rational num/den.   *)

RECURSIVE GCD(_, _)
GCD(a, b) == IF b = 0 THEN Abs(a) ELSE GCD(b, a % b)

\* num/den in lowest terms with a positive denominator; x/0 is left alone
Rat(num, den) ==
    IF den = 0 THEN [num |-> num, den |-> 0]
    ELSE LET g == GCD(Abs(num), Abs(den))
             sg == IF den < 0 THEN -1 ELSE 1
         IN [num |-> sg * (num \div g), den |-> sg * (den \div g)]

RatLess(x, y) == x.num * y.den < y.num * x.den

\* np.argmax(sa_valmat[state,:,0]): scan from index a on, keeping the first
\* index of the largest average seen
RECURSIVE ArgMaxAvgFrom(_, _, _)
ArgMaxAvgFrom(row, a, best) ==
    IF a >= Env.nA THEN best
    ELSE ArgMaxAvgFrom(row, a + 1, IF RatLess(row[best], row[a]) THEN a ELSE best)

ArgMaxAvg(row) == ArgMaxAvgFrom(row, 1, 0)

\* one_iteration reads array_of_choices and random_policy_matrix as globals;
\* they hold what lines 448-449 give them: every action, each equally likely.
\* Sampling is a choice among the actions of non-zero probability, which
\* under the softmax weights exp(v)^0.3 are all of them too.

\* the recognized names, and one that is not
PolicyNames == {"random", "tiny_epsilon", "softmax"}
OtherName == "greedy"

\* np.zeros((nS, nA, 2)) with channel 0, the average, raised by 0.01;
\* channel 1, the visit count, stays 0
SeedNum == 1
SeedDen == 100
InitialValmat ==
    [s \in States |-> [a \in Actions |->
        [count |-> 0, num |-> SeedNum, den |-> SeedDen]]]

\* np.zeros((nS, nA)) of init_env
ZeroOccurence == [s \in States |-> [a \in Actions |-> 0]]

\* a count that grows by one per episode, however often the pair was taken
IncrementCountByOne(cell, k) == cell.count + 1

\* the visit count after "sa_valmat[i,j,1] += sa_occurence_matrix[i,j]"
IncrementCount(cell, k) == cell.count + k

\* the division made before the count is incremented
DivisorBeforeIncrement(cell, k) == cell.count

\* the divisor of the average update: the count channel as it stands when
\* the division is made, that is after the increment
Divisor(cell, k) == IncrementCount(cell, k)

\* sa_valmat[i,j,0] += (occurrences / count) * (rew - sa_valmat[i,j,0])
UpdateCell(cell, k, r) ==
    LET n == Divisor(cell, k)
        avg == Rat(cell.num * n + k * (r * cell.den - cell.num), cell.den * n)
    IN [count |-> IncrementCount(cell, k), num |-> avg.num, den |-> avg.den]

\* the two nested for loops: only pairs with an occurrence are touched
UpdateValmat(mat, occ, r) ==
    [s \in States |-> [a \in Actions |->
        IF occ[s][a] >= 1 THEN UpdateCell(mat[s][a], occ[s][a], r)
        ELSE mat[s][a]]]

\* the reward of the last step only when it is smaller
EpisodeRewardMin(r, latest) == IF r <= latest THEN r ELSE latest

\* rew = max(rew, reward)
EpisodeReward(r, latest) == Max(r, latest)

\* the comparison made strict
TinyEpsilonChoiceStrict(mat, s, eps, random_shot, sampled) ==
    IF random_shot > eps
    THEN [branch |-> "greedy", action |-> ArgMaxAvg(mat[s])]
    ELSE [branch |-> "random", action |-> sampled]

\* tiny_epsilon_choice: random_shot is uniform on [0, 1), here a multiple of
\* 1/EpsRes below 1; sampled is what np.random.choice would return
TinyEpsilonChoice(mat, s, eps, random_shot, sampled) ==
    IF random_shot >= eps
    THEN [branch |-> "greedy", action |-> ArgMaxAvg(mat[s])]
    ELSE [branch |-> "random", action |-> sampled]

\* epsilon = 0.5 - sigmoid(i / train_epochs) / 2, which falls from 0.25 at
\* i = 0 towards 0.13; the sigmoid is taken as 1/2 + x/4 and the result is
\* rounded down to the grid
DecayedEpsilon(i, n) == (EpsRes \div 4) - ((EpsRes * i) \div (8 * n))

\* the default epsilon = 0.1 of one_iteration
DefaultEpsilon == EpsRes \div 10

Epsilons == {0, DefaultEpsilon, EpsRes \div 4, EpsRes}

solverVars == <<call, pc, discount, policy, V, pe_i, pe_max, pi_i, pi_max, result>>
episodeVars == <<mc_pc, mc_policy, epsilon, sa_occurence_matrix, done, state,
                 rew, reward, step_count, action, branch>>
envVars == <<env_s, env_resets, env_steps, taken>>
trainVars == <<tt_pc, tt_policy, train_epochs, test_epochs, tt_i, train_wins, test_wins>>

\* one_iteration is entered: init_env resets the environment and the locals
BeginEpisode(pol, eps) ==
    /\ mc_pc' = "loop"
    /\ mc_policy' = pol
    /\ epsilon' = eps
    /\ sa_occurence_matrix' = ZeroOccurence
    /\ env_s' = 0
    /\ env_resets' = env_resets + 1
    /\ done' = FALSE
    /\ state' = 0
    /\ rew' = 0
    /\ step_count' = 0
    /\ episodes' = episodes + 1
    /\ branch' = "none"
    /\ UNCHANGED <<reward, action, env_steps, taken, steps_returned, sa_valmat>>

\* only the first occurrence of a pair in an episode is recorded
RecordOccurenceOnce(occ, s, a) == [occ EXCEPT ![s][a] = 1]

\* sa_occurence_matrix[state,action] += 1
RecordOccurence(occ, s, a) == [occ EXCEPT ![s][a] = @ + 1]

\* the rest of a pass of the while loop once the action is chosen: the
\* occurrence is recorded and the environment draws one outcome
TakeAction(a) ==
    /\ action' = a
    /\ sa_occurence_matrix' = RecordOccurence(sa_occurence_matrix, state, a)
    /\ taken' = [taken EXCEPT ![env_s][a] = @ + 1]
    /\ \E k \in 1..Len(Env.P[env_s][a]) :
          LET o == Env.P[env_s][a][k]
          IN /\ o.pn > 0
             /\ env_s' = o.ns
             /\ state' = o.ns
             /\ reward' = o.r
             /\ done' = o.t
             /\ rew' = EpisodeReward(rew, o.r)
             /\ mc_pc' = IF o.t THEN "update" ELSE "loop"
    /\ env_steps' = env_steps + 1

\* one pass of "while done == False" under a recognized policy
OI_Step ==
    /\ mc_pc = "loop"
    /\ done = FALSE
    /\ step_count < MaxSteps
    /\ mc_policy \in PolicyNames
    /\ step_count' = step_count + 1
    /\ \/ /\ mc_policy \in {"random", "softmax"}
          /\ branch' = branch
          /\ \E a \in Actions : TakeAction(a)
       \/ /\ mc_policy = "tiny_epsilon"
          /\ \E random_shot \in 0..(EpsRes - 1), sampled \in Actions :
                LET c == TinyEpsilonChoice(sa_valmat, state, epsilon,
                                           random_shot, sampled)
                IN /\ branch' = c.branch
                   /\ TakeAction(c.action)
    /\ UNCHANGED <<mc_policy, epsilon, env_resets, episodes, steps_returned,
                   sa_valmat, error>>
    /\ UNCHANGED <<envId, solverVars, trainVars>>

\* no branch of the if/elif chain assigns action: line 397 reads it unbound
OI_StepFails ==
    /\ mc_pc = "loop"
    /\ done = FALSE
    /\ mc_policy \notin PolicyNames
    /\ step_count' = step_count + 1
    /\ mc_pc' = "failed"
    /\ error' = "UnboundLocalError"
    /\ UNCHANGED <<mc_policy, epsilon, sa_occurence_matrix, done, state, rew,
                   reward, action, branch, envVars, episodes, steps_returned, sa_valmat>>
    /\ UNCHANGED <<envId, solverVars, trainVars>>

\* the loop has ended: the update of the matrix, and the return
OI_Update ==
    /\ mc_pc = "update"
    /\ sa_valmat' = UpdateValmat(sa_valmat, sa_occurence_matrix, rew)
    /\ mc_pc' = "returned"
    /\ steps_returned' = steps_returned + step_count
    /\ UNCHANGED <<mc_policy, epsilon, sa_occurence_matrix, done, state, rew,
                   reward, step_count, action, branch, envVars, episodes, error>>
    /\ UNCHANGED <<envId, solverVars, trainVars>>

----------------------------------------------------------------------------
(* A caller that builds the matrix as train_and_test does and then calls    *)
(* one_iteration some times, with any policy name and epsilon               *)

InitEpisodes ==
    /\ envId \in EpisodeEnvs
    /\ error = "none"
    /\ sa_valmat = InitialValmat
    /\ IdleSolver
    /\ IdleEpisode
    /\ IdleTrain

OI_Call ==
    /\ tt_pc = "idle"
    /\ mc_pc \in {"idle", "returned"}
    /\ episodes < MaxEpisodes
    /\ \E pol \in PolicyNames \cup {OtherName}, eps \in Epsilons :
          BeginEpisode(pol, eps)
    /\ UNCHANGED <<envId, solverVars, trainVars, error>>

----------------------------------------------------------------------------
(* train_and_test *)

\* "for i in range(10)": the warm-up episodes
WarmupEpisodes == 10

InitTrain ==
    /\ envId \in TrainEnvs
    /\ error = "none"
    /\ sa_valmat = InitialValmat
    /\ IdleSolver
    /\ IdleEpisode
    /\ tt_pc = "warmup"
    /\ tt_policy \in PolicyNames \cup {OtherName}
    /\ train_epochs \in 0..MaxTrain
    /\ test_epochs \in 0..MaxTest
    /\ tt_i = 0
    /\ train_wins = 0
    /\ test_wins = 0

\* a pass of the first loop calls one_iteration(sa_valmat, policy='random')
TT_Warmup ==
    /\ tt_pc = "warmup"
    /\ mc_pc = "idle"
    /\ tt_i < WarmupEpisodes
    /\ BeginEpisode("random", DefaultEpsilon)
    /\ UNCHANGED <<envId, solverVars, trainVars, error>>

\* a pass of the second loop calls one_iteration with the caller's policy
TT_Train ==
    /\ tt_pc = "train"
    /\ mc_pc = "idle"
    /\ tt_i < train_epochs
    /\ BeginEpisode(tt_policy, DecayedEpsilon(tt_i, train_epochs))
    /\ UNCHANGED <<envId, solverVars, trainVars, error>>

\* one_iteration returned to the first or second loop: train_wins += rew
TT_CountTrainWin ==
    /\ tt_pc \in {"warmup", "train"}
    /\ mc_pc = "returned"
    /\ train_wins' = train_wins + rew
    /\ tt_i' = tt_i + 1
    /\ mc_pc' = "idle"
    /\ UNCHANGED <<tt_pc, tt_policy, train_epochs, test_epochs, test_wins>>
    /\ UNCHANGED <<mc_policy, epsilon, sa_occurence_matrix, done, state, rew,
                   reward, step_count, action, branch, envVars, episodes, steps_returned>>
    /\ UNCHANGED <<envId, solverVars, sa_valmat, error>>

\* the first loop ends, the second begins; the second ends, the third begins
TT_NextLoop ==
    /\ mc_pc = "idle"
    /\ \/ /\ tt_pc = "warmup"
          /\ tt_i >= WarmupEpisodes
          /\ tt_pc' = "train"
       \/ /\ tt_pc = "train"
          /\ tt_i >= train_epochs
          /\ tt_pc' = "test"
    /\ tt_i' = 0
    /\ UNCHANGED <<tt_policy, train_epochs, test_epochs, train_wins, test_wins>>
    /\ UNCHANGED <<envId, solverVars, episodeVars, envVars, episodes,
                   steps_returned, sa_valmat, error>>

\* a pass of the third loop: one_iteration under 'tiny_epsilon', epsilon = 0
TT_Test ==
    /\ tt_pc = "test"
    /\ mc_pc = "idle"
    /\ tt_i < test_epochs
    /\ BeginEpisode("tiny_epsilon", 0)
    /\ UNCHANGED <<envId, solverVars, trainVars, error>>

\* one_iteration returned to the third loop: "wins += rew_pol" reads the
\* local wins, which no statement of train_and_test has assigned
TT_CountTestWinFails ==
    /\ tt_pc = "test"
    /\ mc_pc = "returned"
    /\ tt_pc' = "failed"
    /\ error' = "UnboundLocalError"
    /\ UNCHANGED <<tt_policy, train_epochs, test_epochs, tt_i, train_wins, test_wins>>
    /\ UNCHANGED <<envId, solverVars, episodeVars, envVars, episodes,
                   steps_returned, sa_valmat>>

\* the third loop ends without a pass (any pass fails above): the return
\* statement reads test_win, a name bound nowhere in the notebook, and,
\* should the kernel hold such a global, divides test_wins by test_epochs = 0
TT_ReturnFails ==
    /\ tt_pc = "test"
    /\ mc_pc = "idle"
    /\ tt_i >= test_epochs
    /\ tt_pc' = "failed"
    /\ error' \in {"NameError", "ZeroDivisionError"}
    /\ UNCHANGED <<tt_policy, train_epochs, test_epochs, tt_i, train_wins, test_wins>>
    /\ UNCHANGED <<envId, solverVars, episodeVars, envVars, episodes,
                   steps_returned, sa_valmat>>

\* the exception of one_iteration leaves train_and_test too
TT_Raised ==
    /\ tt_pc \in {"warmup", "train", "test"}
    /\ mc_pc = "failed"
    /\ tt_pc' = "failed"
    /\ UNCHANGED <<tt_policy, train_epochs, test_epochs, tt_i, train_wins, test_wins>>
    /\ UNCHANGED <<envId, solverVars, episodeVars, envVars, episodes,
                   steps_returned, sa_valmat, error>>

InitEstimator == InitEpisodes \/ InitTrain

NextEstimator ==
    \/ OI_Call
    \/ OI_Step
    \/ OI_StepFails
    \/ OI_Update
    \/ TT_Warmup
    \/ TT_Train
    \/ TT_CountTrainWin
    \/ TT_NextLoop
    \/ TT_Test
    \/ TT_CountTestWinFails
    \/ TT_ReturnFails
    \/ TT_Raised

SpecEstimator == InitEstimator /\ [][NextEstimator]_vars

----------------------------------------------------------------------------
(* Properties of the solver, checked under SpecSolver *)

Ended == pc \in {"returned", "failed"}

\* the iteration budget ran out after at least one pass: only then does a
\* call return None, and only then does policy_iteration receive None from
\* policy_evaluation
BudgetExhausted ==
    /\ result = "None" \/ V = None
    /\ pe_i >= 1 \/ pi_i >= 1

IsOneHot(row) ==
    \E a \in DOMAIN row :
        /\ row[a] = Env.nA
        /\ \A b \in DOMAIN row : b # a => row[b] = 0

\* the largest entry of one_step_lookahead(s, V)
BestValue(s, Vc) == one_step_lookahead(s, Vc)[BestAction(s, Vc)]

PolicyReturned == call = "policy_iteration" /\ pc = "returned" /\ result = "policy_V"

\* C1: a call of policy_evaluation or policy_iteration whose max_iterations
\* ran out without convergence ends in a NonConvergence failure reported to
\* the caller, never in a normal return.
C1_ExhaustionFails ==
    (Ended /\ BudgetExhausted) => (pc = "failed" /\ error = "NonConvergence")

\* C2: every row of a policy returned by policy_iteration is one-hot; no
\* state keeps its initial uniform row.
C2_ReturnedPolicyOneHot ==
    PolicyReturned => \A s \in States : IsOneHot(policy[s])

\* C3: the V returned by policy_iteration satisfies the Bellman optimality
\* equation in every state within the convergence threshold.
C3_BellmanOptimal ==
    PolicyReturned => \A s \in States : Abs(V[s] - BestValue(s, V)) <= Theta

\* C5: policy_iteration ends after at most state_count * action_count
\* improvement rounds.
C5_RoundsBounded ==
    call = "policy_iteration" => pi_i <= Env.nS * Env.nA

----------------------------------------------------------------------------
(* Properties of the Monte Carlo estimator, checked under SpecEstimator *)

\* the call of one_iteration has been made under a name it does not know
UnknownNameFailed == mc_pc = "failed" /\ mc_policy \notin PolicyNames

\* the failing call is the first thing the caller did: the call of
\* train_and_test, or the first call of one_iteration
FirstCall == tt_pc # "idle" \/ episodes = 1

\* C4: an unrecognized policy name fails with InvalidConfiguration before
\* any simulation: no reset, no step, no entry of the matrix changed, and
\* under train_and_test no warm-up episode has run.
C4_FailsFast ==
    UnknownNameFailed =>
        /\ error = "InvalidConfiguration"
        /\ FirstCall => /\ env_resets = 0
                        /\ env_steps = 0
                        /\ sa_valmat = InitialValmat

TrainEnded == tt_pc \in {"returned", "failed"}

\* C6: train_and_test under a recognized policy runs 10 warm-up, N training
\* and M test episodes and then returns normally.
C6_TrainAndTestReturns ==
    (TrainEnded /\ tt_policy \in PolicyNames) =>
        /\ tt_pc = "returned"
        /\ error = "none"
        /\ episodes = WarmupEpisodes + train_epochs + test_epochs

UpdateStep == mc_pc = "update" /\ mc_pc' = "returned"

\* C7: the update adds the k >= 1 occurrences of a pair to its visit count
\* and moves its average by (k / (old_count + k)) * (R - old_average); a
\* pair not taken in the episode keeps count and average.
C7_IncrementalAverage ==
    [][UpdateStep =>
        \A s \in States, a \in Actions :
            LET k == sa_occurence_matrix[s][a]
                old == sa_valmat[s][a]
                new == sa_valmat'[s][a]
                n == old.count + k
            IN IF k >= 1
               THEN /\ new.count = n
                    /\ new.den # 0
                    /\ new.num * (old.den * n)
                         = new.den * (old.num * n + k * (rew * old.den - old.num))
               ELSE new = old]_vars

\* a pair taken twice in this episode and visited before it, next to a pair
\* the episode never took
C7_Witness ==
    /\ mc_pc = "returned"
    /\ \E s \in States, a \in Actions :
          /\ sa_occurence_matrix[s][a] >= 2
          /\ sa_valmat[s][a].count > sa_occurence_matrix[s][a]
          /\ sa_valmat[s][a].den > 1
    /\ \E s \in States, a \in Actions : sa_occurence_matrix[s][a] = 0

\* first index of the largest average of a row
IsFirstMax(row, a) ==
    /\ \A b \in DOMAIN row : ~RatLess(row[a], row[b])
    /\ \A b \in DOMAIN row : b < a => RatLess(row[b], row[a])

ChoiceStep ==
    mc_pc = "loop" /\ mc_policy = "tiny_epsilon" /\ step_count' = step_count + 1

\* C8: with epsilon = 0 tiny_epsilon_choice takes the greedy branch for
\* every draw and returns the first arg-max of the state's averages; with
\* epsilon = 1 it takes the random branch for every draw.
C8_EpsilonBoundaries ==
    [][ChoiceStep =>
        /\ epsilon = 0 => /\ branch' = "greedy"
                          /\ IsFirstMax(sa_valmat[state], action')
        /\ epsilon = EpsRes => branch' = "random"]_vars

\* a greedy choice at epsilon = 0 that is not the first action
C8_Witness ==
    /\ mc_policy = "tiny_epsilon"
    /\ epsilon = 0
    /\ step_count >= 1
    /\ branch = "greedy"
    /\ action # 0

GoalOnlyRewards ==
    \A s \in States, a \in Actions :
        \A k \in 1..Len(Env.P[s][a]) :
            LET o == Env.P[s][a][k]
            IN o.r # 0 => (o.r = 1 /\ o.t)

\* C10: in such an environment the reward of an episode under the random
\* policy is 0 or 1 at every point, and when the episode has ended it is
\* the terminal reward.
C10_RewardZeroOrOne ==
    (GoalOnlyRewards /\ mc_policy = "random") =>
        /\ rew \in {0, 1}
        /\ mc_pc \in {"update", "returned"} => rew = reward

\* a random episode of more than one step that ended at the goal
C10_Witness ==
    /\ GoalOnlyRewards
    /\ mc_policy = "random"
    /\ mc_pc = "returned"
    /\ step_count >= 2
    /\ reward = 1
    /\ rew = 1

----------------------------------------------------------------------------
(* Shortest paths in a table whose actions have one outcome each *)

SingleOutcomes ==
    \A s \in States, a \in Actions : Len(Env.P[s][a]) = 1

\* the states entered with reward 1 by a terminating transition
GoalStates ==
    {g \in States : \E s \in States, a \in Actions :
        \E k \in 1..Len(Env.P[s][a]) :
            LET o == Env.P[s][a][k] IN o.ns = g /\ o.r = 1 /\ o.t}

\* the only state a terminating transition leads to is the one goal
OneTerminalGoal ==
    /\ Cardinality(GoalStates) = 1
    /\ \A s \in States, a \in Actions :
          \A k \in 1..Len(Env.P[s][a]) :
              Env.P[s][a][k].t => Env.P[s][a][k].ns \in GoalStates

Successor(s, a) == Env.P[s][a][1].ns

Min(a, b) == IF a <= b THEN a ELSE b

\* length of the shortest path from s to the goal using at most k steps;
\* Env.nS stands for "no such path"
RECURSIVE DistWithin(_, _)
DistWithin(s, k) ==
    IF s \in GoalStates THEN 0
    ELSE IF k = 0 THEN Env.nS
    ELSE LET best == CHOOSE a \in Actions :
                        \A b \in Actions :
                            DistWithin(Successor(s, a), k - 1)
                              <= DistWithin(Successor(s, b), k - 1)
         IN Min(Env.nS, 1 + DistWithin(Successor(s, best), k - 1))

Dist(s) == DistWithin(s, Env.nS)

\* C11: in a table with one outcome per action and one terminal goal with
\* reward 1, the policy returned under the default discount factor 1.0
\* chooses, in every state that can reach the goal, an action on a shortest
\* path to it.
C11_ShortestPath ==
    (PolicyReturned /\ SingleOutcomes /\ OneTerminalGoal /\ GoalOnlyRewards
       /\ discount = <<1, 1>>) =>
        \A s \in States :
            (s \notin GoalStates /\ Dist(s) < Env.nS) =>
                Dist(Successor(s, ArgMax(policy[s]))) = Dist(s) - 1

----------------------------------------------------------------------------
(* Ending of the episode loop of one_iteration *)

\* the actions the exploration policy of the running episode can choose in s
ChoosableActions(s) ==
    IF mc_policy = "tiny_epsilon"
    THEN {TinyEpsilonChoice(sa_valmat, s, epsilon, random_shot, sampled).action :
             random_shot \in 0..(EpsRes - 1), sampled \in Actions}
    ELSE Actions

\* the outcomes env.step can produce in s under a choosable action
ChoosableOutcomes(s) ==
    {o \in UNION {{Env.P[s][a][k] : k \in 1..Len(Env.P[s][a])} :
                     a \in ChoosableActions(s)} : o.pn > 0}

\* the states the episode can be in after at most k more steps from within S
RECURSIVE EpisodeReach(_, _)
EpisodeReach(S, k) ==
    IF k = 0 THEN S
    ELSE EpisodeReach(
             S \cup {o.ns : o \in {x \in UNION {ChoosableOutcomes(s) : s \in S} :
                                      ~x.t}},
             k - 1)

\* some continuation of the episode steps into a terminal state
CanTerminate ==
    \E s \in EpisodeReach({env_s}, Env.nS) :
        \E o \in ChoosableOutcomes(s) : o.t

\* C12: every episode loop eventually ends, under any of the three
\* exploration policies, bounded-greedy with epsilon = 0 included: the
\* environment reaches a terminal state and the loop exits.  An episode that
\* is to end can, wherever its loop stands, still reach a terminal state by
\* actions its policy chooses.
C12_EpisodeEnds ==
    (mc_pc = "loop" /\ ~done /\ mc_policy \in PolicyNames) => CanTerminate

----------------------------------------------------------------------------
(* Visit counts over a sequence of one_iteration calls *)

\* the pairs of the matrix, in the order of the two update loops
Pairs == {<<s, a>> : s \in States, a \in Actions}

RECURSIVE SumCountsOver(_, _)
SumCountsOver(mat, ps) ==
    IF ps = {} THEN 0
    ELSE LET p == CHOOSE q \in ps : TRUE
         IN mat[p[1]][p[2]].count + SumCountsOver(mat, ps \ {p})

\* the sum of the count channel
SumCounts(mat) == SumCountsOver(mat, Pairs)

\* C13: over a sequence of one_iteration calls on a matrix whose counts start
\* at 0, no visit count ever decreases, and whenever a call has returned the
\* count of every (state, action) pair is the number of times the action was
\* taken in the state over all the episodes, and the counts add up to the
\* sum of the step counts the calls returned.
C13_VisitCounts ==
    [][/\ \A s \in States, a \in Actions :
              sa_valmat'[s][a].count >= sa_valmat[s][a].count
       /\ mc_pc' = "returned" =>
              /\ \A s \in States, a \in Actions :
                     sa_valmat'[s][a].count = taken'[s][a]
              /\ SumCounts(sa_valmat') = steps_returned']_vars

\* two calls have returned, with a pair taken more than once and more steps
\* than calls
C13_Witness ==
    /\ mc_pc = "returned"
    /\ episodes >= 2
    /\ steps_returned > episodes
    /\ SumCounts(sa_valmat) = steps_returned
    /\ \E s \in States, a \in Actions :
          sa_valmat[s][a].count >= 2 /\ taken[s][a] = sa_valmat[s][a].count

====
